---- MODULE Spec2Model ----
(***************************************************************************)
(* language-mysql, src/Adaptor.js: execute(...operations) wraps the user   *)
(* operations in connect / disconnect / cleanupState and threads a State   *)
(* object through them; insert, upsert and sqlString build one SQL         *)
(* statement each and run it on the State's connection.                    *)
(*                                                                         *)
(* JavaScript objects live in a heap (heap, arrays, conns) so that object  *)
(* identity, shallow copies and in-place changes (delete) are visible.     *)
(* Strings are sequences of one-character strings, so that String.slice    *)
(* and the driver's placeholder substitution are computed, not assumed.    *)
(***************************************************************************)
EXTENDS Integers, Sequences, FiniteSets, TLC

\* ------------------------------------------------------------------ bounds

\* The largest number of user operations handed to execute(...).
MaxOps == 2

\* The largest number of user operations per pipeline when two runs interleave.
MaxOpsRuns == 1

\* ----------------------------------------------------------------- strings

INSERT == <<"I", "N", "S", "E", "R", "T">>
INTO == <<"I", "N", "T", "O">>
UPDATE == <<"U", "P", "D", "A", "T", "E">>
SET == <<"S", "E", "T">>
SELECT_1 == <<"S", "E", "L", "E", "C", "T", " ", "1">>

\* The literal of Adaptor.js line 163.
ON_DUPLICATE_KEY_UPDATE ==
  <<" ", "O", "N", " ", "D", "U", "P", "L", "I", "C", "A", "T", "E", " ",
    "K", "E", "Y", " ", "U", "P", "D", "A", "T", "E", " ">>

\* The argument of updateString.slice(10), Adaptor.js line 163.
UpdatePrefixLen == 10

\* The backtick character (a TLA+ string cannot hold one).
Backtick == "BACKTICK"

RECURSIVE Join(_, _)
\* Array.prototype.join: the strings of parts with sep between them.
Join(parts, sep) ==
  IF Len(parts) = 0 THEN <<>>
  ELSE IF Len(parts) = 1 THEN parts[1]
  ELSE parts[1] \o sep \o Join(Tail(parts), sep)

\* String.prototype.slice(n) for 0 <= n.
Slice(s, n) == SubSeq(s, n + 1, Len(s))

\* A field value as the query builder and the driver see it: a number (text is
\* its digits) or a string (text is its characters).
Number(digits) == [type |-> "number", text |-> digits]
String(chars) == [type |-> "string", text |-> chars]

\* ------------------------------------------------- squel, flavour 'mysql'

\* autoQuoteFieldNames: true; the flavour's nameQuoteCharacter is the backtick.
QuoteFieldName(name) == <<Backtick>> \o name \o <<Backtick>>

IsNonEmpty(s) == Len(s) > 0

\* A builder's toParam(): the texts of its blocks, the empty ones dropped,
\* joined by one space.
JoinBlocks(blocks) == Join(SelectSeq(blocks, IsNonEmpty), <<" ">>)

\* squel.insert({autoQuoteFieldNames: true}).into(table).setFields(valuesObj)
\* .toParam(): every value is a '?' parameter.
InsertParam(table, valuesObj) ==
  LET n == Len(valuesObj)
      names == [i \in 1..n |-> QuoteFieldName(valuesObj[i].name)]
      marks == [i \in 1..n |-> <<"?">>]
  IN  [text |-> JoinBlocks(<<INSERT,
                             INTO \o <<" ">> \o table,
                             <<"(">> \o Join(names, <<",", " ">>) \o <<")", " ">>
                               \o <<"V", "A", "L", "U", "E", "S">> \o <<" ", "(">>
                               \o Join(marks, <<",", " ">>) \o <<")">> >>),
       values |-> [i \in 1..n |-> valuesObj[i].value]]

\* squel.update({autoQuoteFieldNames: true}).table(table).setFields(valuesObj)
\* .toParam(): the table block of table('') is empty and is dropped.
UpdateParam(table, valuesObj) ==
  LET n == Len(valuesObj)
      sets == [i \in 1..n |->
                 QuoteFieldName(valuesObj[i].name) \o <<" ", "=", " ", "?">>]
  IN  [text |-> JoinBlocks(<<UPDATE,
                             table,
                             SET \o <<" ">> \o Join(sets, <<",", " ">>) >>),
       values |-> [i \in 1..n |-> valuesObj[i].value]]

\* ---------------------------------------------------- mysql (SqlString)

RECURSIVE EscapeChars(_)
\* The characters of a string literal, quotes and backslashes escaped.
EscapeChars(s) ==
  IF Len(s) = 0 THEN <<>>
  ELSE (IF s[1] \in {"'", "\"", "\\"} THEN <<"\\", s[1]>> ELSE <<s[1]>>)
         \o EscapeChars(Tail(s))

\* SqlString.escape: a number as its digits, a string quoted and escaped.
Escape(value) ==
  IF value.type = "number" THEN value.text
  ELSE <<"'">> \o EscapeChars(value.text) \o <<"'">>

RECURSIVE EscapeIdChars(_)
EscapeIdChars(s) ==
  IF Len(s) = 0 THEN <<>>
  ELSE (IF s[1] = Backtick THEN <<Backtick, Backtick>>
        ELSE IF s[1] = "." THEN <<Backtick, ".", Backtick>>
        ELSE <<s[1]>>) \o EscapeIdChars(Tail(s))

\* SqlString.escapeId: the value as a quoted identifier.
EscapeId(value) == <<Backtick>> \o EscapeIdChars(value.text) \o <<Backtick>>

RECURSIVE PlaceholderRun(_, _)
\* The length of the run of '?' that starts at sql[i] (the match of /\?+/g).
PlaceholderRun(sql, i) ==
  IF i > Len(sql) \/ sql[i] # "?" THEN 0 ELSE 1 + PlaceholderRun(sql, i + 1)

RECURSIVE FormatFrom(_, _, _, _)
\* SqlString.format from sql[i] on, with values[vi..] left: each '?' takes the
\* next value escaped, each '??' the next value as an identifier, a longer run
\* is kept; once the values run out the rest of sql is kept as it is.
FormatFrom(sql, i, values, vi) ==
  IF i > Len(sql) THEN <<>>
  ELSE IF vi > Len(values) THEN SubSeq(sql, i, Len(sql))
  ELSE IF sql[i] # "?" THEN <<sql[i]>> \o FormatFrom(sql, i + 1, values, vi)
  ELSE LET n == PlaceholderRun(sql, i)
       IN  IF n > 2
           THEN SubSeq(sql, i, i + n - 1) \o FormatFrom(sql, i + n, values, vi)
           ELSE (IF n = 2 THEN EscapeId(values[vi]) ELSE Escape(values[vi]))
                  \o FormatFrom(sql, i + n, values, vi + 1)

\* mysql.format(sql, inserts).
Format(sql, values) == FormatFrom(sql, 1, values, 1)

\* --------------------------------------------- the statements of Adaptor.js

\* insert: the statement handed to connection.query.
InsertString(table, valuesObj) ==
  LET sqlParams == InsertParam(table, valuesObj)
  IN  Format(sqlParams.text, sqlParams.values)

\* upsert: the rendered UPDATE statement of the same values, table ''.
UpdateString(valuesObj) ==
  LET updateParams == UpdateParam(<<>>, valuesObj)
  IN  Format(updateParams.text, updateParams.values)

\* upsert: the statement handed to connection.query.
UpsertString(table, valuesObj) ==
  InsertString(table, valuesObj) \o ON_DUPLICATE_KEY_UPDATE
    \o Slice(UpdateString(valuesObj), UpdatePrefixLen)

\* ------------------------------------------------------------------ inputs

\* The runs of one process: one alone, or two whose steps interleave.
OneRun == {"r1"}
TwoRuns == {"r1", "r2"}

\* The table and the resolved field mappings handed to insert and upsert; a
\* mapping is the sequence of its (name, value) pairs in key order.
TableT == <<"t">>
FieldA == [name |-> <<"a">>, value |-> Number(<<"1">>)]
FieldBQ == [name |-> <<"b", "?">>, value |-> String(<<"x">>)]
FieldSpecs == {<<FieldA>>, <<FieldA, FieldBQ>>}

\* An operation handed to execute(...): kind names the function that made it;
\* throws says that what the caller supplied fails when it is called (insert,
\* upsert: a reference of fields cannot be resolved; sqlString: fun(state)
\* throws; other: the operation rejects).
Op(kind, table, fields, throws) ==
  [kind |-> kind, table |-> table, fields |-> fields, throws |-> throws]

LifecycleOp(kind) == Op(kind, <<>>, <<>>, FALSE)

QueryingOps ==
  {Op(k, TableT, f, FALSE) : k \in {"insert", "upsert"}, f \in FieldSpecs}
    \cup {Op(k, TableT, <<FieldA>>, TRUE) : k \in {"insert", "upsert"}}
    \cup {Op("sqlString", <<>>, <<>>, t) : t \in BOOLEAN}

\* Every user operation of the model.
UserOps == QueryingOps \cup {Op("other", <<>>, <<>>, t) : t \in BOOLEAN}

\* The user operations of two interleaved runs.
UserOpsRuns ==
  {Op(k, TableT, <<FieldA>>, FALSE) : k \in {"insert", "upsert"}}
    \cup {Op(k, <<>>, <<>>, FALSE) : k \in {"sqlString", "other"}}

\* All sequences over S of length at most n.
SeqsUpTo(S, n) == UNION {[1..k -> S] : k \in 0..n}

\* The configuration of a State: the host is a server that accepts the
\* connection ("up") or one that cannot be reached ("down").
Configuration(host) ==
  [host |-> host, port |-> "3306", database |-> "db", user |-> "u",
   password |-> "p"]

\* The State objects a caller passes to execute(...)(state).
CallerStates ==
  {[configuration |-> Configuration(h)] : h \in {"up", "down"}}
    \cup {[data |-> "d0"]}

\* What the driver hands to a query's callback on success: an array of cells,
\* each a number or a Date.
NumberCell == [type |-> "number", v |-> 1]
DateCell == [type |-> "Date", v |-> 0]
DriverResults == {<<NumberCell>>, <<NumberCell, DateCell>>}

\* ------------------------------------------------------------------- state

VARIABLES
  pipelines,  \* the results of execute(...): [ops, references], references
              \* the array of that call's initialState
  arrays,     \* the heap of arrays: id -> elements
  heap,       \* the heap of State objects: id -> (field name -> value)
  conns,      \* the connections made by mysql.createConnection: id -> the
              \* connection, with the calls made on it, in order
  run,        \* the invocations execute(...)(state): where each one stands
  exported    \* the module's bindings insert, upsert, sqlString

vars == <<pipelines, arrays, heap, conns, run, exported>>

\* A binding that holds a function.
FunctionValue == [type |-> "function", text |-> <<>>]

Runs == DOMAIN run

\* The identity of an object or of a connection: who made it (the caller, or
\* a run) and its number among those. NoObject is undefined.
Id(owner, n) == <<owner, n>>
NoObject == Id("none", 0)

\* The identity of the next object that run r makes in heap h.
New(h, r) == Id(r, Cardinality({o \in DOMAIN h : o[1] = r}) + 1)

\* The heap h with a new object obj made by run r.
Alloc(h, r, obj) == (New(h, r) :> obj) @@ h

\* A run that has not been started.
IdleRun(p, input) ==
  [pipeline |-> p, input |-> input, status |-> "idle", pc |-> 0,
   cur |-> NoObject, conn |-> NoObject, query |-> 0, error |-> "",
   trace |-> <<>>]

InitCommon ==
  /\ arrays = [i \in 1..Len(pipelines) |-> <<>>]
  /\ conns = [c \in {} |-> {}]
  /\ exported = [insert |-> FunctionValue, upsert |-> FunctionValue,
                 sqlString |-> FunctionValue]

\* One pipeline of up to MaxOps user operations, not yet run.
Init ==
  /\ \E ops \in SeqsUpTo(UserOps, MaxOps) :
       pipelines = <<[ops |-> ops, references |-> 1]>>
  /\ \E s \in CallerStates : heap = (Id("caller", 1) :> s)
  /\ run = [r \in OneRun |-> IdleRun(1, Id("caller", 1))]
  /\ InitCommon

\* Two runs: of one execute(...) result or of two, on one caller State object
\* or on two.
InitRuns ==
  /\ \E opss \in SeqsUpTo(SeqsUpTo(UserOpsRuns, MaxOpsRuns), 2) :
       /\ Len(opss) >= 1
       /\ pipelines = [i \in 1..Len(opss) |-> [ops |-> opss[i], references |-> i]]
  /\ \E s \in CallerStates :
       heap \in {(Id("caller", 1) :> s),
                 (Id("caller", 1) :> s) @@ (Id("caller", 2) :> s)}
  /\ run = [r \in TwoRuns |->
              IF r = "r1" THEN IdleRun(1, Id("caller", 1))
              ELSE IdleRun(Len(pipelines),
                           Id("caller", Cardinality(DOMAIN heap)))]
  /\ InitCommon

\* --------------------------------------------------------- State objects

Has(state, field) == field \in DOMAIN state

\* { ...state, [field]: value }: a new object.
With(state, field, value) == (field :> value) @@ state

\* The object left by "delete state[field]".
Without(state, field) == [f \in DOMAIN state \ {field} |-> state[f]]

\* execute: initialState, made once per execute(...) call.
InitialState(p) == [references |-> pipelines[p].references, data |-> "null"]

\* execute: { ...initialState, ...state }, the State handed to the chain.
SpreadInitial(p, state) == state @@ InitialState(p)

\* A wrapper that closes the connection before the user operations run.
WrappedDisconnectFirst(ops) ==
  <<LifecycleOp("connect"), LifecycleOp("disconnect")>> \o ops
    \o <<LifecycleOp("cleanupState")>>

\* execute: the operations handed to commonExecute.
WrappedOperations(ops) ==
  <<LifecycleOp("connect")>> \o ops
    \o <<LifecycleOp("disconnect"), LifecycleOp("cleanupState")>>

Operations(r) == WrappedOperations(pipelines[run[r].pipeline].ops)

\* ------------------------------------ language-common execute (the chain)

\* The run is at an operation that the chain has not invoked yet.
Pending(r) ==
  /\ run[r].status = "running"
  /\ run[r].pc <= Len(Operations(r))

Invoked(r, kind) == Pending(r) /\ Operations(r)[run[r].pc].kind = kind

\* What the chain records when it invokes its next operation on State obj.
Entry(r, obj) ==
  [op |-> Operations(r)[run[r].pc].kind,
   state |-> obj,
   connection |-> IF Has(heap[obj], "connection")
                  THEN heap[obj].connection ELSE NoObject]

Traced(r) == [run[r] EXCEPT !.trace = Append(@, Entry(r, run[r].cur))]

\* The operation has produced State obj: the next one is invoked on it, or
\* the run resolves to it when there is none.
Fulfil(rr, r, obj) ==
  [rr EXCEPT !.cur = obj,
             !.pc = @ + 1,
             !.status = IF rr.pc + 1 > Len(Operations(r))
                        THEN "resolved" ELSE "running"]

\* The operation has thrown or rejected with e: the run rejects with e and no
\* later operation is invoked.
Reject(rr, e) == [rr EXCEPT !.status = "rejected", !.error = e]

\* ----------------------------------------------------------- the driver

\* A call on a connection, as the connection's log keeps it: by and at are the
\* run and the place in its chain of the operation that made the call. A
\* query's err is "pending" until its callback has run, then "" or the
\* error's code.
Call(call, r, sql) ==
  [call |-> call, by |-> r, at |-> run[r].pc, sql |-> sql, err |-> "",
   results |-> <<>>]

\* mysql.createConnection(config) and connection.connect(): no callback is
\* passed, the handshake runs later.
CreateConnection(config, r) ==
  [config |-> config, handshake |-> "pending",
   calls |-> <<Call("connect", r, <<>>)>>]

\* connection.query(sql, callback).
Query(cs, c, r, sql) ==
  [cs EXCEPT ![c].calls = Append(@, [Call("query", r, sql) EXCEPT !.err = "pending"])]

\* connection.end().
End(cs, c, r) == [cs EXCEPT ![c].calls = Append(@, Call("end", r, <<>>))]

EndedBefore(c, i) == \E j \in 1..(i - 1) : conns[c].calls[j].call = "end"

\* What the driver may hand to the callback of call i on connection c: the
\* handshake's error when the server was not reached, an error when the
\* connection was ended before the query was queued, else an error of the
\* statement or a result.
DriverOutcomes(c, i) ==
  IF conns[c].handshake = "failed"
  THEN {[err |-> "ECONNREFUSED", results |-> <<>>]}
  ELSE IF EndedBefore(c, i)
  THEN {[err |-> "PROTOCOL_ENQUEUE_AFTER_QUIT", results |-> <<>>]}
  ELSE {[err |-> "ER_PARSE_ERROR", results |-> <<>>]}
         \cup {[err |-> "", results |-> res] : res \in DriverResults}

\* The log with the outcome of call i written into it.
Answered(cs, c, i, out) ==
  [cs EXCEPT ![c].calls[i].err = out.err, ![c].calls[i].results = out.results]

\* The handshake of connection c ends: the server accepts it or is not reached.
Handshake(c) ==
  /\ conns[c].handshake = "pending"
  /\ conns' = [conns EXCEPT ![c].handshake =
                 IF conns[c].config.host = "up" THEN "ok" ELSE "failed"]
  /\ UNCHANGED <<pipelines, arrays, heap, run, exported>>

\* JSON.parse(JSON.stringify(results)): a Date comes back as a string.
JsonRoundTrip(results) ==
  [i \in 1..Len(results) |->
     IF results[i].type = "Date" THEN [results[i] EXCEPT !.type = "string"]
     ELSE results[i]]

\* ------------------------------------------------------------- execute

\* An execute that fills initialState into the caller's object and hands that
\* object to the chain.
ExecuteInPlace(r) ==
  /\ run[r].status = "idle"
  /\ heap' = [heap EXCEPT ![run[r].input] = SpreadInitial(run[r].pipeline, @)]
  /\ run' = [run EXCEPT ![r].status = "running", ![r].pc = 1,
                        ![r].cur = run[r].input]
  /\ UNCHANGED <<pipelines, arrays, conns, exported>>

\* execute(...operations)(state): the chain starts on a copy of the caller's
\* State over initialState.
Execute(r) ==
  /\ run[r].status = "idle"
  /\ heap' = Alloc(heap, r, SpreadInitial(run[r].pipeline, heap[run[r].input]))
  /\ run' = [run EXCEPT ![r].status = "running", ![r].pc = 1,
                        ![r].cur = New(heap, r)]
  /\ UNCHANGED <<pipelines, arrays, conns, exported>>

\* connect: the State it returns.
ConnectResult(state, connection) == With(state, "connection", connection)

\* connect(state): destructuring state.configuration throws when there is
\* none; else a connection is created, connect() is called on it and a copy
\* of the State with the connection is returned.
Connect(r) ==
  /\ Invoked(r, "connect")
  /\ LET state == heap[run[r].cur]
         connection == New(conns, r)
     IN  IF ~Has(state, "configuration")
         THEN /\ run' = [run EXCEPT ![r] = Reject(Traced(r), "TypeError")]
              /\ UNCHANGED <<heap, conns>>
         ELSE /\ conns' = Alloc(conns, r, CreateConnection(state.configuration, r))
              /\ heap' = Alloc(heap, r, ConnectResult(state, connection))
              /\ run' = [run EXCEPT ![r] =
                           [Fulfil(Traced(r), r, New(heap, r))
                              EXCEPT !.conn = connection]]
  /\ UNCHANGED <<pipelines, arrays, exported>>

\* disconnect(state): state.connection.end(), the State returned as it is.
Disconnect(r) ==
  /\ Invoked(r, "disconnect")
  /\ LET state == heap[run[r].cur]
     IN  IF ~Has(state, "connection")
         THEN /\ run' = [run EXCEPT ![r] = Reject(Traced(r), "TypeError")]
              /\ UNCHANGED conns
         ELSE /\ conns' = End(conns, state.connection, r)
              /\ run' = [run EXCEPT ![r] = Fulfil(Traced(r), r, run[r].cur)]
  /\ UNCHANGED <<pipelines, arrays, heap, exported>>

\* A cleanupState that deletes nothing.
CleanupStateKeepsConnection(state) == state

\* cleanupState: what "delete state.connection" leaves of the object.
CleanupStateResult(state) == Without(state, "connection")

\* cleanupState(state): the connection is deleted from the object itself.
CleanupState(r) ==
  /\ Invoked(r, "cleanupState")
  /\ heap' = [heap EXCEPT ![run[r].cur] = CleanupStateResult(@)]
  /\ run' = [run EXCEPT ![r] = Fulfil(Traced(r), r, run[r].cur)]
  /\ UNCHANGED <<pipelines, arrays, conns, exported>>

\* An operation that runs no query: it rejects, or returns a copy of the
\* State with data replaced.
Other(r) ==
  /\ Invoked(r, "other")
  /\ IF Operations(r)[run[r].pc].throws
     THEN /\ run' = [run EXCEPT ![r] = Reject(Traced(r), "OperationError")]
          /\ heap' = heap
     ELSE /\ heap' = Alloc(heap, r, With(heap[run[r].cur], "data", "d1"))
          /\ run' = [run EXCEPT ![r] = Fulfil(Traced(r), r, New(heap, r))]
  /\ UNCHANGED <<pipelines, arrays, conns, exported>>

\* -------------------------------------------- insert, upsert, sqlString

\* new Promise(... connection.query(sql, callback) ...): the query is queued
\* on the State's connection and the operation waits for its callback;
\* without a connection the call throws and the promise rejects.
IssueQuery(r, sql) ==
  LET state == heap[run[r].cur]
  IN  IF ~Has(state, "connection")
      THEN /\ run' = [run EXCEPT ![r] = Reject(Traced(r), "TypeError")]
           /\ UNCHANGED conns
      ELSE /\ conns' = Query(conns, state.connection, r, sql)
           /\ run' = [run EXCEPT ![r] =
                        [Traced(r) EXCEPT
                           !.status = "awaiting",
                           !.query = Len(conns[state.connection].calls) + 1]]

\* The run waits for the callback of a query that an operation of this kind
\* issued, and the handshake of the connection has ended.
Awaiting(r, kind) ==
  /\ run[r].status = "awaiting"
  /\ Operations(r)[run[r].pc].kind = kind
  /\ conns[heap[run[r].cur].connection].handshake # "pending"

\* insert(table, fields)(state) up to the query: fields is resolved, the
\* statement is rendered and assigned to sqlString, the query is issued.
Insert(r) ==
  /\ Invoked(r, "insert")
  /\ LET op == Operations(r)[run[r].pc]
     IN  IF op.throws
         THEN /\ run' = [run EXCEPT ![r] = Reject(Traced(r), "ResolutionError")]
              /\ UNCHANGED <<conns, exported>>
         ELSE /\ exported' = [exported EXCEPT
                                !.sqlString = String(InsertString(op.table, op.fields))]
              /\ IssueQuery(r, exported'.sqlString.text)
  /\ UNCHANGED <<pipelines, arrays, heap>>

\* insert: what the callback does to the connection on an error.
InsertOnError(cs, c, r) == End(cs, c, r)

\* A next State that also keeps the result in data.
InsertNextStateSetsData(state, data) ==
  With(With(state, "response", [body |-> data]), "data", "d1")

\* insert: the State the operation resolves to.
InsertNextState(state, data) == With(state, "response", [body |-> data])

\* A callback that resolves on an error: the chain goes on with the State.
InsertCallbackResolvesOnError(r) ==
  /\ Awaiting(r, "insert")
  /\ LET state == heap[run[r].cur]
         c == state.connection
     IN  \E out \in DriverOutcomes(c, run[r].query) :
           /\ conns' = IF out.err # ""
                        THEN InsertOnError(Answered(conns, c, run[r].query, out), c, r)
                        ELSE Answered(conns, c, run[r].query, out)
           /\ heap' = Alloc(heap, r, InsertNextState(state, out.results))
           /\ run' = [run EXCEPT ![r] = Fulfil(@, r, New(heap, r))]
  /\ UNCHANGED <<pipelines, arrays, exported>>

\* insert: the callback of the query, and the then() after it.
InsertCallback(r) ==
  /\ Awaiting(r, "insert")
  /\ LET state == heap[run[r].cur]
         c == state.connection
     IN  \E out \in DriverOutcomes(c, run[r].query) :
           IF out.err # ""
           THEN /\ run' = [run EXCEPT ![r] = Reject(@, out.err)]
                /\ conns' = InsertOnError(Answered(conns, c, run[r].query, out), c, r)
                /\ heap' = heap
           ELSE /\ conns' = Answered(conns, c, run[r].query, out)
                /\ heap' = Alloc(heap, r, InsertNextState(state, out.results))
                /\ run' = [run EXCEPT ![r] = Fulfil(@, r, New(heap, r))]
  /\ UNCHANGED <<pipelines, arrays, exported>>

\* upsert(table, fields)(state) up to the query.
Upsert(r) ==
  /\ Invoked(r, "upsert")
  /\ LET op == Operations(r)[run[r].pc]
     IN  IF op.throws
         THEN /\ run' = [run EXCEPT ![r] = Reject(Traced(r), "ResolutionError")]
              /\ UNCHANGED conns
         ELSE IssueQuery(r, UpsertString(op.table, op.fields))
  /\ UNCHANGED <<pipelines, arrays, heap, exported>>

\* A callback that leaves the connection open on an error.
UpsertOnErrorNoEnd(cs, c, r) == cs

\* upsert: what the callback does to the connection on an error.
UpsertOnError(cs, c, r) == End(cs, c, r)

\* upsert: the State the operation resolves to.
UpsertNextState(state, data) == With(state, "response", [body |-> data])

\* upsert: the callback of the query, and the then() after it.
UpsertCallback(r) ==
  /\ Awaiting(r, "upsert")
  /\ LET state == heap[run[r].cur]
         c == state.connection
     IN  \E out \in DriverOutcomes(c, run[r].query) :
           IF out.err # ""
           THEN /\ run' = [run EXCEPT ![r] = Reject(@, out.err)]
                /\ conns' = UpsertOnError(Answered(conns, c, run[r].query, out), c, r)
                /\ heap' = heap
           ELSE /\ conns' = Answered(conns, c, run[r].query, out)
                /\ heap' = Alloc(heap, r, UpsertNextState(state, out.results))
                /\ run' = [run EXCEPT ![r] = Fulfil(@, r, New(heap, r))]
  /\ UNCHANGED <<pipelines, arrays, exported>>

\* sqlString(fun)(state) up to the query: fun(state) is the statement.
SqlString(r) ==
  /\ Invoked(r, "sqlString")
  /\ IF Operations(r)[run[r].pc].throws
     THEN /\ run' = [run EXCEPT ![r] = Reject(Traced(r), "RenderError")]
          /\ UNCHANGED conns
     ELSE IssueQuery(r, SELECT_1)
  /\ UNCHANGED <<pipelines, arrays, heap, exported>>

\* sqlString: what the callback does to the connection on an error.
SqlStringOnError(cs, c, r) == End(cs, c, r)

\* sqlString: the State the operation resolves to; data is the result after
\* JSON.parse(JSON.stringify(results)).
SqlStringNextState(state, data) == With(state, "response", [body |-> data])

\* sqlString: the callback of the query, and the then() after it.
SqlStringCallback(r) ==
  /\ Awaiting(r, "sqlString")
  /\ LET state == heap[run[r].cur]
         c == state.connection
     IN  \E out \in DriverOutcomes(c, run[r].query) :
           IF out.err # ""
           THEN /\ run' = [run EXCEPT ![r] = Reject(@, out.err)]
                /\ conns' = SqlStringOnError(Answered(conns, c, run[r].query, out), c, r)
                /\ heap' = heap
           ELSE /\ conns' = Answered(conns, c, run[r].query, out)
                /\ heap' = Alloc(heap, r, SqlStringNextState(state, JsonRoundTrip(out.results)))
                /\ run' = [run EXCEPT ![r] = Fulfil(@, r, New(heap, r))]
  /\ UNCHANGED <<pipelines, arrays, exported>>

\* ------------------------------------------------------- specifications

Next ==
  \/ \E r \in Runs : Execute(r)
  \/ \E r \in Runs : Connect(r)
  \/ \E r \in Runs : Insert(r)
  \/ \E r \in Runs : InsertCallback(r)
  \/ \E r \in Runs : Upsert(r)
  \/ \E r \in Runs : UpsertCallback(r)
  \/ \E r \in Runs : SqlString(r)
  \/ \E r \in Runs : SqlStringCallback(r)
  \/ \E r \in Runs : Other(r)
  \/ \E r \in Runs : Disconnect(r)
  \/ \E r \in Runs : CleanupState(r)
  \/ \E c \in DOMAIN conns : Handshake(c)

\* One run of one pipeline.
Spec == Init /\ [][Next]_vars

\* Two runs whose steps interleave.
SpecRuns == InitRuns /\ [][Next]_vars

\* ------------------------------------------------------------ properties

UserOperations(r) == pipelines[run[r].pipeline].ops

\* The names of the operations the chain of run r has invoked, in order.
InvokedOps(r) == [i \in 1..Len(run[r].trace) |-> run[r].trace[i].op]

\* The order execute(op1..opN) promises: connect, the user operations, then
\* disconnect and cleanupState.
PromisedOrder(r) ==
  <<"connect">> \o [i \in 1..Len(UserOperations(r)) |-> UserOperations(r)[i].kind]
    \o <<"disconnect", "cleanupState">>

IsPrefix(s, t) == Len(s) <= Len(t) /\ \A i \in 1..Len(s) : s[i] = t[i]

\* The calls of a kind that run r made, on any connection.
CallsBy(r, call) ==
  {<<c, i>> \in UNION {{c} \X (1..Len(conns[c].calls)) : c \in DOMAIN conns} :
     conns[c].calls[i].call = call /\ conns[c].calls[i].by = r}

Settled(r) == run[r].status \in {"resolved", "rejected"}

HasFailed(call) == call.call = "query" /\ call.err \notin {"", "pending"}

\* C1: in a run whose operations all succeed, connect is invoked once and
\* first, disconnect (connection.end) once and after the last user operation
\* has completed, cleanupState after disconnect, for any number of user
\* operations: at every moment the operations invoked so far are a prefix of
\* connect, op1..opN, disconnect, cleanupState; a resolved run has invoked all
\* of them, and its connection has seen connect first and end once, last.
C1_LifecycleOrder ==
  \A r \in Runs :
    /\ IsPrefix(InvokedOps(r), PromisedOrder(r))
    /\ run[r].status = "resolved" =>
         /\ InvokedOps(r) = PromisedOrder(r)
         /\ Cardinality(CallsBy(r, "connect")) = 1
         /\ Cardinality(CallsBy(r, "end")) = 1
         /\ LET calls == conns[run[r].conn].calls
            IN  /\ calls[1].call = "connect"
                /\ calls[Len(calls)].call = "end"
                /\ \A i \in 2..(Len(calls) - 1) :
                     calls[i].call = "query" /\ calls[i].err = ""

\* A run of MaxOps user operations, a query among them, has resolved.
C1_Witness ==
  \E r \in Runs :
    /\ run[r].status = "resolved"
    /\ Len(UserOperations(r)) = MaxOps
    /\ CallsBy(r, "query") # {}

\* The failure of the operation that run r invoked i-th, "" when it has not
\* failed: what it threw, or the error the driver handed to its callback.
FailureOf(r, i) ==
  LET op == Operations(r)[i]
      entry == run[r].trace[i]
      failed == {q \in CallsBy(r, "query") :
                   conns[q[1]].calls[q[2]].at = i /\ HasFailed(conns[q[1]].calls[q[2]])}
  IN  IF op.kind = "connect" /\ ~Has(heap[entry.state], "configuration")
      THEN "TypeError"
      ELSE IF op.kind \in {"insert", "upsert"} /\ op.throws THEN "ResolutionError"
      ELSE IF op.kind = "sqlString" /\ op.throws THEN "RenderError"
      ELSE IF op.kind = "other" /\ op.throws THEN "OperationError"
      ELSE IF failed # {}
      THEN LET q == CHOOSE q \in failed : TRUE IN conns[q[1]].calls[q[2]].err
      ELSE ""

\* C2: when an operation of connect, op1..opN, disconnect, cleanupState throws
\* or rejects, no operation after it is invoked and the run rejects with that
\* failure.
C2_AbortOnFailure ==
  \A r \in Runs : \A i \in 1..Len(run[r].trace) :
    FailureOf(r, i) # "" =>
      /\ Len(run[r].trace) = i
      /\ run[r].status = "rejected"
      /\ run[r].error = FailureOf(r, i)

\* A user operation has failed with later user operations still to run.
C2_Witness ==
  \E r \in Runs : \E i \in 1..Len(run[r].trace) :
    /\ FailureOf(r, i) # ""
    /\ i >= 2
    /\ i < Len(UserOperations(r)) + 1

\* C3: when the driver hands an error to the callback of the query of an
\* insert, upsert or sqlString, the run rejects with that error and
\* connection.end has been called exactly once in the run, wherever the
\* operation sits.
C3_QueryErrorClosesOnce ==
  \A c \in DOMAIN conns : \A i \in 1..Len(conns[c].calls) :
    HasFailed(conns[c].calls[i]) =>
      LET r == conns[c].calls[i].by
      IN  /\ run[r].status = "rejected"
          /\ run[r].error = conns[c].calls[i].err
          /\ Cardinality(CallsBy(r, "end")) = 1

\* The query of an upsert that is the second user operation has failed.
C3_Witness ==
  \E c \in DOMAIN conns : \E i \in 1..Len(conns[c].calls) :
    /\ HasFailed(conns[c].calls[i])
    /\ conns[c].calls[i].at = 3
    /\ Operations(conns[c].calls[i].by)[3].kind = "upsert"

\* C4: the connection a run opened does not outlive the run: once the run has
\* settled, connection.end has been called on it, whatever made the run fail.
C4_ConnectionEndedWhenSettled ==
  \A r \in Runs :
    (Settled(r) /\ run[r].conn # NoObject) =>
      \E i \in 1..Len(conns[run[r].conn].calls) :
        conns[run[r].conn].calls[i].call = "end"

\* C5: whatever has run, the exported insert, upsert and sqlString are
\* functions.
C5_ExportsAreFunctions ==
  /\ exported.insert = FunctionValue
  /\ exported.upsert = FunctionValue
  /\ exported.sqlString = FunctionValue

IsUserOp(kind) == kind \in {"insert", "upsert", "sqlString", "other"}

\* C6: a connection error surfaces at connect: once the connection attempt of
\* a run has failed, the chain invokes no user operation of that run.
C6_NoUserOperationAfterFailedConnect ==
  [][\A r \in Runs :
       (run[r].conn # NoObject /\ conns[run[r].conn].handshake = "failed") =>
         ~(/\ Len(run'[r].trace) > Len(run[r].trace)
           /\ IsUserOp(run'[r].trace[Len(run'[r].trace)].op))]_vars

\* The INSERT statement of a table and a field mapping: the quoted columns,
\* then the escaped values.
RenderedInsert(table, fields) ==
  LET n == Len(fields)
  IN  INSERT \o <<" ">> \o INTO \o <<" ">> \o table \o <<" ", "(">>
        \o Join([i \in 1..n |-> QuoteFieldName(fields[i].name)], <<",", " ">>)
        \o <<")", " ", "V", "A", "L", "U", "E", "S", " ", "(">>
        \o Join([i \in 1..n |-> Escape(fields[i].value)], <<",", " ">>)
        \o <<")">>

\* The assignment list of a field mapping: each column of the INSERT clause
\* set to its value.
AssignmentList(fields) ==
  Join([i \in 1..Len(fields) |->
          QuoteFieldName(fields[i].name) \o <<" ", "=", " ">>
            \o Escape(fields[i].value)],
       <<",", " ">>)

\* C7: the query of every upsert is the INSERT statement of its table and
\* fields, one ON DUPLICATE KEY UPDATE clause, and the assignment list of the
\* same columns and values (white space before the list is not counted).
C7_UpsertStatement ==
  \A c \in DOMAIN conns : \A i \in 1..Len(conns[c].calls) :
    LET call == conns[c].calls[i]
        op == Operations(call.by)[call.at]
    IN  (call.call = "query" /\ op.kind = "upsert") =>
          \E pad \in {<<>>, <<" ">>} :
            call.sql = RenderedInsert(op.table, op.fields)
                         \o ON_DUPLICATE_KEY_UPDATE \o pad
                         \o AssignmentList(op.fields)

\* C8: between connect and cleanupState the State carries the connection that
\* connect made, and nowhere else: the caller's object is given none, connect
\* is handed a State without one, every later operation a State with it, and
\* the State a run resolves to has none.
C8_ConnectionPresence ==
  \A r \in Runs :
    /\ ~Has(heap[run[r].input], "connection")
    /\ \A i \in 1..Len(run[r].trace) :
         IF run[r].trace[i].op = "connect"
         THEN run[r].trace[i].connection = NoObject
         ELSE /\ run[r].trace[i].connection # NoObject
              /\ run[r].trace[i].connection = run[r].conn
    /\ (run[r].status \in {"running", "awaiting"} /\ run[r].pc > 1) =>
         /\ Has(heap[run[r].cur], "connection")
         /\ heap[run[r].cur].connection = run[r].conn
    /\ run[r].status = "resolved" => ~Has(heap[run[r].cur], "connection")

\* A run with user operations has resolved.
C8_Witness ==
  \E r \in Runs :
    /\ run[r].status = "resolved"
    /\ Len(run[r].trace) = MaxOps + 3

\* The objects a run's chain has held: those handed to its operations and the
\* one it holds now.
StatesOf(r) ==
  {run[r].trace[i].state : i \in 1..Len(run[r].trace)}
    \cup (IF run[r].cur = NoObject THEN {} ELSE {run[r].cur})

Succeeds(r) ==
  /\ run[r].status = "awaiting"
  /\ run'[r].status \in {"running", "resolved"}

\* The State after a successful query operation is a new object that differs
\* from the State the operation received in response alone, which is
\* {body: expected}; the received object is as it was.
OnlyResponseSet(r, expected) ==
  LET old == run[r].cur
      new == run'[r].cur
  IN  /\ new \notin DOMAIN heap
      /\ heap'[old] = heap[old]
      /\ DOMAIN heap'[new] = DOMAIN heap[old] \cup {"response"}
      /\ \A f \in DOMAIN heap[old] \ {"response"} : heap'[new][f] = heap[old][f]
      /\ heap'[new].response = [body |-> expected]

\* What the driver handed to the callback of the query run r waits for.
DriverResult(r) ==
  conns'[heap[run[r].cur].connection].calls[run[r].query].results

\* C10 as stated: after a successful insert, upsert or sqlString only response
\* differs, and it is {body: the driver's result}.
C10_ResponseIsDriverResult ==
  [][\A r \in Runs : Succeeds(r) => OnlyResponseSet(r, DriverResult(r))]_vars

\* A driver result as plain data: every Date is a string.
PlainData(results) ==
  [i \in 1..Len(results) |->
     [type |-> IF results[i].type = "Date" THEN "string" ELSE results[i].type,
      v |-> results[i].v]]

\* C10, amended: after a successful insert or upsert only response differs, and
\* it is {body: the driver's result}; after a successful sqlString only response
\* differs, and it is {body: the result as plain data}.
C10_ResponseIsResultOrPlainCopy ==
  [][\A r \in Runs :
       Succeeds(r) =>
         OnlyResponseSet(r, IF Operations(r)[run[r].pc].kind = "sqlString"
                            THEN PlainData(DriverResult(r))
                            ELSE DriverResult(r))]_vars

\* An insert and a sqlString have succeeded: the State holds a response whose
\* body has a string where the driver handed a Date.
C10_Witness ==
  \E r \in Runs :
    /\ run[r].cur # NoObject
    /\ Has(heap[run[r].cur], "response")
    /\ \E i \in 1..Len(heap[run[r].cur].response.body) :
         heap[run[r].cur].response.body[i].type = "string"
    /\ \E i \in 1..Len(run[r].trace) : run[r].trace[i].op = "insert"

====
